---- MODULE Spec2Model ----
(***************************************************************************)
(* Download task lifecycle and transfer engine of velodown                 *)
(* (src/src-tauri/src/main.rs): the task registry, the handle map, the     *)
(* spawned download loops, the user commands that start, pause and cancel  *)
(* them, the persisted document state.json and the startup that loads it.  *)
(*                                                                         *)
(* Granularity.  A spawned loop is stopped by JoinHandle::abort, which     *)
(* takes effect at the loop's next suspension point (.await).  No .await   *)
(* occurs while a lock guard is held, so every critical section is one     *)
(* atomic step, and a step of a unit runs from one lock acquisition or     *)
(* I/O completion to the next.  A step that only receives a value from the *)
(* network (a response, a stream error) changes no shared state and is     *)
(* merged into the critical section that follows it.                       *)
(***************************************************************************)
EXTENDS Integers, Sequences, FiniteSets, TLC

\* ---------------------------------------------------------------- bounds
MaxTasks == 2        \* tasks ever added
MaxUnits == 2        \* download loops ever spawned
MaxCalls == 1        \* commands in flight at once
Size == 2            \* bytes of the remote resource (chunks are one byte)
MaxK == 2            \* largest max_resume_attempts tried
MaxDuration == 1     \* attempt durations and min_fail_duration_seconds, seconds
MaxThreads == 3      \* commands and units running at once in the lock protocol

\* ------------------------------------------------------------- constants
U8Max == 255
None == -1           \* Option::None of time_remaining
Wrapped == -2        \* a u64 subtraction that wrapped around (release build)
NoUnit == 0          \* no entry in the handle map
NoThread == 0        \* a tokio Mutex that nobody holds

TaskIds == 1..MaxTasks
Durations == 0..MaxDuration

VARIABLES
    downloads,          \* PersistentState.downloads : Vec<DownloadTask>
    settings,           \* PersistentState.settings
    download_handles,   \* AppState.download_handles : id -> unit
    units,              \* the spawned download loops, by spawn order
    calls,              \* commands suspended between two of their steps
    file,               \* length of each task's destination file
    nextId,             \* ids handed out so far + 1 (uuid: never reused)
    hist,               \* per task: events of an undisturbed run
    ctl,                \* per task: last completed pause / cancel / resume
    store,              \* state.json: what the last save_state wrote
    boot,               \* main: where the setup closure stands
    threads,            \* lock protocol: each command or unit, instruction by instruction
    mutex               \* lock protocol: the two Mutexes and what they guard

progVars == <<downloads, settings, download_handles, units, calls, file, nextId, hist, ctl,
              store, boot>>
lockVars == <<threads, mutex>>
vars == <<downloads, settings, download_handles, units, calls, file, nextId, hist, ctl,
          store, boot, threads, mutex>>

\* ------------------------------------------------------------ data model
Statuses == {"Queued", "Downloading", "Paused", "Completed", "Failed", "Verifying", "Retrying"}

SettingsSpace ==
    [max_concurrent_downloads : {1},
     auto_start : BOOLEAN,
     auto_resume_downloads : BOOLEAN,
     max_resume_attempts : 0..MaxK,
     min_fail_duration_seconds : {0, MaxDuration}]

\* The settings the full interleaving is explored with: automatic retry on,
\* one retry allowed, the fast-failure rule active; auto_start either way.
UsualSettings ==
    {s \in SettingsSpace : /\ s.auto_resume_downloads
                           /\ s.max_resume_attempts = 1
                           /\ s.min_fail_duration_seconds = MaxDuration}

\* impl Default for AppSettings
DefaultSettings ==
    [max_concurrent_downloads |-> 4,
     auto_start |-> TRUE, auto_resume_downloads |-> TRUE,
     max_resume_attempts |-> 5, min_fail_duration_seconds |-> 20]

\* state.json when it holds no document: the file is absent, cannot be read
\* (permissions, bytes that are not UTF-8), is not a PersistentState in JSON,
\* or the data directory itself cannot be resolved or created.
NoStore(kind) == [kind |-> kind, downloads |-> <<>>, settings |-> DefaultSettings]

NewTask(id, total) ==
    [id |-> id, status |-> "Queued", progress |-> 0, total_size |-> total,
     downloaded_size |-> 0, speed |-> 0, time_remaining |-> None,
     error_message |-> "none", completed_at |-> FALSE, resume_attempts |-> 0]

HasTask(id) == \E i \in 1..Len(downloads) : downloads[i].id = id
Index(id) == CHOOSE i \in 1..Len(downloads) : downloads[i].id = id
Task(id) == downloads[Index(id)]
SetTask(id, t) == [downloads EXCEPT ![Index(id)] = t]
Retain(id) == SelectSeq(downloads, LAMBDA t : t.id # id)

\* ------------------------------------------------------------- the units
DeadPcs == {"done", "aborted", "panicked"}
Live(u) == units[u].pc \notin DeadPcs
LiveUnits(id) == {u \in 1..Len(units) : units[u].id = id /\ Live(u)}

NewUnit(id) ==
    [id |-> id, pc |-> "init",
     auto_resume_downloads |-> FALSE, max_resume_attempts |-> 0,
     min_fail_duration_seconds |-> 0,
     resume_from |-> 0, attempts |-> 0, total_size |-> 0, downloaded |-> 0,
     remaining |-> 0]

\* A unit that has stopped keeps only its identity and its settings snapshot.
Stopped(un, pc) ==
    [un EXCEPT !.pc = pc, !.resume_from = 0, !.attempts = 0, !.total_size = 0,
               !.downloaded = 0, !.remaining = 0]

\* JoinHandle::abort: stops the unit unless it has already finished.
Abort(us, u) ==
    IF us[u].pc \in DeadPcs THEN us ELSE [us EXCEPT ![u] = Stopped(@, "aborted")]

\* ---------------------------------------------------------------- history
\* hist[id] lists what happened to a task that was started once and then left
\* alone: "Queued" when added, "spawn" when started, each status a unit gives
\* it, and each attempt's outcome ("ok", or the error, preceded by "fast" when
\* the attempt was not the first and was shorter than
\* min_fail_duration_seconds).  A pause, a cancel or a second start ends the
\* record (Dirty).
Dirty == <<"dirty">>
Rec(h, e) == IF h = Dirty THEN Dirty ELSE Append(h, e)
RecTask(id, es) ==
    [hist EXCEPT ![id] = IF @ = Dirty THEN Dirty ELSE @ \o es]
Spawned(h) == \E i \in 1..Len(h) : h[i] = "spawn"
RecSpawn(h) == IF Spawned(h) THEN Dirty ELSE Rec(h, "spawn")

\* ------------------------------------------------------- pure functions
\* download_file: the progress percentage, as a whole number of percent.
Progress(downloaded, total) ==
    IF total > 0 THEN (downloaded * 100) \div total ELSE 0

\* download_file: the remaining-time estimate.  total - downloaded is a u64
\* subtraction: it wraps in a release build when downloaded > total.
TimeRemaining(downloaded, total, speed) ==
    IF speed > 0
    THEN IF downloaded > total THEN Wrapped ELSE (total - downloaded) \div speed
    ELSE None

\* download_file: the total size read from the response headers.
TotalSize(resume_from, status, content_length) ==
    IF resume_from > 0 /\ status = 206
    THEN content_length + resume_from
    ELSE content_length

\* The substrings of the error text that the retry loop searches for.
\*   e401  "Authorization failed (401 Unauthorized). ..."
\*   e403  "Authorization failed (403 Forbidden). ..."
\*   e404  "Server returned an error: 404 Not Found"
\*   e500  "Server returned an error: 500 Internal Server Error"
\*   mismatch "File size mismatch"
\*   neterr   a transport error (connect, timeout, reset)
\* The task's error_message records that a text is present and whether it is
\* the loop's own "Network error. Retrying in ..." text, not the text itself.
Errors == {"e401", "e403", "e404", "e500", "neterr", "mismatch"}
RequestErrors == Errors \ {"mismatch"}
Contains403(err) == err = "e403"
\* mutant: the 404 test is missing
Contains404Missing(err) == FALSE
Contains404(err) == err = "e404"
ContainsMismatch(err) == err = "mismatch"

\* mutant: the attempt ceiling is compared with > instead of >=
ShouldFailPermanentlyOffByOne(auto_resume, max_attempts, min_fail, attempts, duration, err) ==
    \/ ~auto_resume
    \/ attempts > max_attempts
    \/ (attempts > 0 /\ duration < min_fail)
    \/ Contains403(err) \/ Contains404(err) \/ ContainsMismatch(err)

\* mutant: the duration rule is applied to the first attempt as well
ShouldFailPermanentlyFirstToo(auto_resume, max_attempts, min_fail, attempts, duration, err) ==
    \/ ~auto_resume
    \/ attempts >= max_attempts
    \/ duration < min_fail
    \/ Contains403(err) \/ Contains404(err) \/ ContainsMismatch(err)

\* start_download_task: should_fail_permanently.
ShouldFailPermanently(auto_resume, max_attempts, min_fail, attempts, duration, err) ==
    \/ ~auto_resume
    \/ attempts >= max_attempts
    \/ (attempts > 0 /\ duration < min_fail)
    \/ Contains403(err) \/ Contains404(err) \/ ContainsMismatch(err)

\* mutant: the first run is counted too
NextAttemptsAlways(status, attempts) == (attempts + 1) % (U8Max + 1)

\* start_download_task: resume_attempts += 1 leaves the range of a u8.
AttemptsOverflow(status, attempts) == status # "Queued" /\ attempts = U8Max

\* start_download_task: the attempt counter at the head of the loop (u8).
NextAttempts(status, attempts) ==
    IF status # "Queued" THEN (attempts + 1) % (U8Max + 1) ELSE attempts

\* mutant: the rate is not zeroed on completion
CompletedTaskKeepsSpeed(t, total) ==
    [t EXCEPT !.status = "Completed", !.progress = 100, !.downloaded_size = total,
              !.completed_at = TRUE]

\* download_file: the record written on success.
CompletedTask(t, total) ==
    [t EXCEPT !.status = "Completed", !.progress = 100, !.downloaded_size = total,
              !.speed = 0, !.completed_at = TRUE]

\* pause_download: the record written by a pause.
PausedTask(t) == [t EXCEPT !.status = "Paused", !.speed = 0]

\* save_state: the document written to state.json, the whole registry and the
\* settings.
SaveState(ds, st) == [kind |-> "valid", downloads |-> ds, settings |-> st]

\* ------------------------------------------------------------- commands
\* start_download_task, up to the first .await: tokio::spawn of the loop.
Spawn(id) ==
    /\ Len(units) < MaxUnits
    /\ units' = Append(units, NewUnit(id))
    /\ calls' = calls \cup {[op |-> "insert", id |-> id, unit |-> Len(units) + 1]}
    /\ hist' = [hist EXCEPT ![id] = RecSpawn(@)]

\* add_download: push the Queued record, save, emit, and start it when
\* auto_start is set.
AddDownload(total) ==
    /\ boot = "running"
    /\ nextId <= MaxTasks
    /\ Cardinality(calls) < MaxCalls
    /\ downloads' = Append(downloads, NewTask(nextId, total))
    /\ nextId' = nextId + 1
    /\ IF settings.auto_start
       THEN /\ Len(units) < MaxUnits
            /\ units' = Append(units, NewUnit(nextId))
            /\ calls' = calls \cup {[op |-> "insert", id |-> nextId, unit |-> Len(units) + 1]}
            /\ hist' = [hist EXCEPT ![nextId] = <<"Queued", "spawn">>]
       ELSE /\ hist' = [hist EXCEPT ![nextId] = <<"Queued">>]
            /\ UNCHANGED <<units, calls>>
    /\ UNCHANGED <<settings, download_handles, file, ctl, boot, threads, mutex>>
    /\ store' = SaveState(downloads', settings')

\* resume_download: start_download_task(id), for any id the caller knows.
ResumeDownload(id) ==
    /\ boot = "running"
    /\ id < nextId
    /\ Cardinality(calls) < MaxCalls
    /\ Spawn(id)
    /\ ctl' = [ctl EXCEPT ![id] = IF @ = "cancelled" THEN @
                                  ELSE IF @ = "paused" THEN "resumed" ELSE "none"]
    /\ UNCHANGED <<downloads, settings, download_handles, file, nextId, store, boot, threads, mutex>>

\* start_download_task, after the spawn: insert the handle into the map.  An
\* entry already there is replaced and its JoinHandle dropped, which detaches
\* the older unit without stopping it.
StartInsert(c) ==
    /\ c \in calls /\ c.op = "insert"
    /\ download_handles' = [download_handles EXCEPT ![c.id] = c.unit]
    /\ calls' = calls \ {c}
    /\ UNCHANGED <<downloads, settings, units, file, nextId, hist, ctl, store, boot, threads, mutex>>

\* pause_download, first statement: take the handle out of the map, abort it.
PauseDownload(id) ==
    /\ boot = "running"
    /\ id < nextId
    /\ Cardinality(calls) < MaxCalls
    /\ units' = IF download_handles[id] # NoUnit
                THEN Abort(units, download_handles[id]) ELSE units
    /\ download_handles' = [download_handles EXCEPT ![id] = NoUnit]
    /\ calls' = calls \cup {[op |-> "mark", id |-> id, unit |-> NoUnit]}
    /\ hist' = [hist EXCEPT ![id] = Dirty]
    /\ ctl' = [ctl EXCEPT ![id] = IF @ = "cancelled" THEN @ ELSE "pausing"]
    /\ UNCHANGED <<downloads, settings, file, nextId, store, boot, threads, mutex>>

\* pause_download, the rest: mark the record Paused, emit, save.
PauseMark(c) ==
    /\ c \in calls /\ c.op = "mark"
    /\ downloads' = IF HasTask(c.id) THEN SetTask(c.id, PausedTask(Task(c.id)))
                    ELSE downloads
    /\ calls' = calls \ {c}
    /\ ctl' = [ctl EXCEPT ![c.id] = IF @ = "pausing" THEN "paused" ELSE @]
    /\ UNCHANGED <<settings, download_handles, units, file, nextId, hist, boot, threads, mutex>>
    /\ store' = SaveState(downloads', settings')

\* cancel_download, first statement: take the handle out of the map, abort it.
CancelDownload(id) ==
    /\ boot = "running"
    /\ id < nextId
    /\ Cardinality(calls) < MaxCalls
    /\ units' = IF download_handles[id] # NoUnit
                THEN Abort(units, download_handles[id]) ELSE units
    /\ download_handles' = [download_handles EXCEPT ![id] = NoUnit]
    /\ calls' = calls \cup {[op |-> "retain", id |-> id, unit |-> NoUnit]}
    /\ hist' = [hist EXCEPT ![id] = Dirty]
    /\ UNCHANGED <<downloads, settings, file, nextId, ctl, store, boot, threads, mutex>>

\* cancel_download, the rest: drop the record, save, emit download_removed.
CancelRetain(c) ==
    /\ c \in calls /\ c.op = "retain"
    /\ downloads' = Retain(c.id)
    /\ calls' = calls \ {c}
    /\ ctl' = [ctl EXCEPT ![c.id] = "cancelled"]
    /\ UNCHANGED <<settings, download_handles, units, file, nextId, hist, boot, threads, mutex>>
    /\ store' = SaveState(downloads', settings')

\* update_settings: replace the settings, save.
UpdateSettings(s) ==
    /\ boot = "running"
    /\ s # settings
    /\ settings' = s
    /\ UNCHANGED <<downloads, download_handles, units, calls, file, nextId, hist, ctl, boot, threads, mutex>>
    /\ store' = SaveState(downloads', settings')


\* ------------------------------------------------- the lock protocol: code
\* Every command and the spawned loop as the sequence of its lock operations,
\* accesses under a lock and suspension points, in source order.  lockP and
\* lockH acquire AppState.persistent and AppState.download_handles; a guard is
\* released where it goes out of scope or is dropped.  w1 and w2 are the
\* first and the last field update of a group made under one acquisition, set
\* is a single update.  io is an .await of download_file that can return an
\* error (control goes to `to`), sleep the backoff delay; either and jump are
\* the branches of the code.
Ins(op) == [op |-> op, to |-> 0]
Jmp(op, to) == [op |-> op, to |-> to]
Critical(body) == <<Ins("lockP")>> \o body \o <<Ins("unlockP")>>
Group == <<Ins("w1"), Ins("w2")>>

\* save_state: serialise and write the document under the registry lock.
SaveStateCode == Critical(<<Ins("write")>>)

\* The Retrying branch with the guard kept across the backoff delay.
RetryingHeld == <<Ins("lockP"), Ins("w1"), Ins("w2"), Ins("sleep"), Ins("unlockP")>>

\* The Retrying branch: status and error_message, drop(p_state), then sleep.
Retrying == Critical(Group) \o <<Ins("sleep")>>

\* The spawned loop and download_file.
UnitCode(retrying) ==
    Critical(<<Ins("read")>>)                                  \*  1- 3 settings snapshot
    \o <<Ins("lockP"), Jmp("either", 46)>> \o Group
    \o <<Ins("unlockP")>>                                      \*  4- 8 loop head
    \o <<Jmp("io", 34)>>                                       \*  9    request.send
    \o Critical(Group)                                         \* 10-13 total_size
    \o <<Jmp("io", 34)>>                                       \* 14    create_dir_all, open
    \o <<Jmp("io", 34), Jmp("either", 21)>>                    \* 15-16 stream.next, write_all
    \o Critical(Group)                                         \* 17-20 progress sample
    \o <<Jmp("either", 15)>>                                   \* 21    next chunk or end
    \o Critical(<<Ins("set")>>)                                \* 22-24 Verifying
    \o <<Jmp("io", 34)>>                                       \* 25    metadata, size check
    \o Critical(Group)                                         \* 26-29 Completed
    \o SaveStateCode                                           \* 30-32
    \o <<Jmp("jump", 47)>>                                     \* 33    break on Ok
    \o <<Jmp("either", 40)>>                                   \* 34    should_fail_permanently
    \o Critical(Group)                                         \* 35-38 Failed
    \o <<Jmp("jump", 47)>>                                     \* 39    break
    \o retrying                                                \* 40-44 Retrying, sleep
    \o <<Jmp("jump", 4)>>                                      \* 45    next iteration
    \o <<Ins("unlockP")>>                                      \* 46    task not found: break
    \o <<Ins("lockH"), Ins("remove"), Ins("unlockH")>>         \* 47-49 exit
    \o SaveStateCode                                           \* 50-52

UnitProgramHeld == UnitCode(RetryingHeld)
UnitProgram == UnitCode(Retrying)

\* pause_download and cancel_download, first statement: the handle-map guard
\* lives to the end of the if-let, across the synchronous abort.
TakeAndAbort == <<Ins("lockH"), Ins("abort"), Ins("unlockH")>>

\* pause_download without drop(state_guard) before save_state.
PauseProgramNoDrop ==
    TakeAndAbort \o <<Ins("lockP")>> \o Group \o SaveStateCode \o <<Ins("unlockP")>>

PauseProgram == TakeAndAbort \o Critical(Group) \o SaveStateCode

Commands == {"add_download", "update_settings", "pause_download", "resume_download",
             "cancel_download"}

Program(op) ==
    CASE op = "unit" -> UnitProgram
      [] op = "add_download" ->
            Critical(<<Ins("read")>>) \o Critical(<<Ins("set")>>) \o SaveStateCode
      [] op = "update_settings" -> Critical(<<Ins("set")>>) \o SaveStateCode
      [] op = "pause_download" -> PauseProgram
      [] op = "cancel_download" -> TakeAndAbort \o Critical(<<Ins("set")>>) \o SaveStateCode
      [] op = "resume_download" ->
            <<Ins("spawn"), Ins("lockH"), Ins("insert"), Ins("unlockH")>>
      [] OTHER -> <<>>

Threads == 1..MaxThreads
Idle == [op |-> "none", st |-> "idle", pc |-> 0, cancelled |-> FALSE, child |-> NoThread]

\* Nothing runs and both locks are free.
NoThreads ==
    /\ threads = [t \in Threads |-> Idle]
    /\ mutex = [persistent |-> NoThread, download_handles |-> NoThread,
                entry |-> NoThread, partial |-> FALSE]

Init ==
    /\ downloads = <<>>
    /\ settings \in UsualSettings
    /\ download_handles = [id \in TaskIds |-> NoUnit]
    /\ units = <<>>
    /\ calls = {}
    /\ file = [id \in TaskIds |-> 0]
    /\ nextId = 1
    /\ hist = [id \in TaskIds |-> <<>>]
    /\ ctl = [id \in TaskIds |-> "none"]
    /\ store = NoStore("absent")
    /\ boot = "running"
    /\ NoThreads

\* ------------------------------------------------------- the spawned loop
\* start_download_task: the loop reads the settings once, before its first
\* iteration.
UnitInit(u) ==
    /\ u \in 1..Len(units) /\ units[u].pc = "init"
    /\ units' = [units EXCEPT ![u] =
           [@ EXCEPT !.pc = "loop",
                     !.auto_resume_downloads = settings.auto_resume_downloads,
                     !.max_resume_attempts = settings.max_resume_attempts,
                     !.min_fail_duration_seconds = settings.min_fail_duration_seconds]]
    /\ UNCHANGED <<downloads, settings, download_handles, calls, file, nextId, hist, ctl,
                   store, boot, threads, mutex>>

\* start_download_task: head of the loop.  Count the attempt, mark the task
\* Downloading and read the resume offset; leave the loop when the task is gone.
\* With overflow checks on, resume_attempts += 1 panics at 255 and the unit
\* dies before it has touched the record.
UnitLoop(u, overflow_checks) ==
    /\ u \in 1..Len(units) /\ units[u].pc = "loop"
    /\ LET id == units[u].id IN
       IF HasTask(id) /\ AttemptsOverflow(Task(id).status, Task(id).resume_attempts)
                      /\ overflow_checks
       THEN /\ units' = [units EXCEPT ![u] = Stopped(@, "panicked")]
            /\ UNCHANGED <<downloads, hist>>
       ELSE IF HasTask(id)
       THEN LET t == Task(id)
                n == NextAttempts(t.status, t.resume_attempts)
            IN /\ downloads' = SetTask(id, [t EXCEPT !.resume_attempts = n,
                                                      !.status = "Downloading"])
               /\ units' = [units EXCEPT ![u] =
                      [@ EXCEPT !.pc = "request", !.resume_from = t.downloaded_size,
                                !.attempts = n, !.total_size = 0, !.downloaded = 0,
                                !.remaining = 0]]
               /\ hist' = RecTask(id, <<"Downloading">>)
       ELSE /\ units' = [units EXCEPT ![u] = [@ EXCEPT !.pc = "exit"]]
            /\ UNCHANGED <<downloads, hist>>
    /\ UNCHANGED <<settings, download_handles, calls, file, nextId, ctl, store, boot, threads, mutex>>

\* start_download_task: a failed attempt.  Decide between Failed and Retrying
\* from the settings snapshot, the attempt count, the attempt's duration and
\* the error text.
FailAttempt(u, err, duration) ==
    LET un == units[u]
        id == un.id
        fast == IF un.attempts > 0 /\ duration < un.min_fail_duration_seconds
                THEN <<"fast">> ELSE <<>>
    IN IF ShouldFailPermanently(un.auto_resume_downloads, un.max_resume_attempts,
                                un.min_fail_duration_seconds, un.attempts, duration, err)
       THEN /\ downloads' = IF HasTask(id)
                            THEN SetTask(id, [Task(id) EXCEPT !.status = "Failed",
                                                              !.error_message = "error"])
                            ELSE downloads
            /\ units' = [units EXCEPT ![u] = [@ EXCEPT !.pc = "exit"]]
            /\ hist' = IF HasTask(id) THEN RecTask(id, fast \o <<err, "Failed">>)
                       ELSE hist
       ELSE /\ downloads' = IF HasTask(id)
                            THEN SetTask(id, [Task(id) EXCEPT !.status = "Retrying",
                                                              !.error_message = "retrying"])
                            ELSE downloads
            /\ units' = [units EXCEPT ![u] = [@ EXCEPT !.pc = "sleep"]]
            /\ hist' = IF HasTask(id) THEN RecTask(id, fast \o <<err, "Retrying">>)
                       ELSE hist

\* download_file: the request fails, or the response status is not a success.
UnitRequestError(u, err, duration) ==
    /\ u \in 1..Len(units) /\ units[u].pc = "request"
    /\ err \in RequestErrors
    /\ FailAttempt(u, err, duration)
    /\ UNCHANGED <<settings, download_handles, calls, file, nextId, ctl, store, boot, threads, mutex>>

\* download_file: a success response.  A 206 carries the bytes from the
\* requested offset, a 200 the whole resource (a server that ignores Range
\* answers 200 to a range request).  Record total_size on the task.
UnitRespond(u, status, hasLen) ==
    /\ u \in 1..Len(units) /\ units[u].pc = "request"
    /\ status \in {200, 206}
    /\ status = 206 => (units[u].resume_from > 0 /\ units[u].resume_from < Size)
    /\ LET un == units[u]
           id == un.id
           body == IF status = 206 THEN Size - un.resume_from ELSE Size
           content_length == IF hasLen THEN body ELSE 0
           total == TotalSize(un.resume_from, status, content_length)
       IN /\ downloads' = IF HasTask(id)
                          THEN SetTask(id, [Task(id) EXCEPT !.total_size = total])
                          ELSE downloads
          /\ units' = [units EXCEPT ![u] =
                 [@ EXCEPT !.pc = "open", !.total_size = total,
                           !.downloaded = un.resume_from, !.remaining = body]]
          /\ hist' = IF HasTask(id) THEN RecTask(id, <<"ok">>) ELSE hist
    /\ UNCHANGED <<settings, download_handles, calls, file, nextId, ctl, store, boot, threads, mutex>>

\* download_file: open the destination, for append when resuming, else
\* created and truncated.
UnitOpen(u) ==
    /\ u \in 1..Len(units) /\ units[u].pc = "open"
    /\ file' = IF units[u].resume_from > 0 THEN file
               ELSE [file EXCEPT ![units[u].id] = 0]
    /\ units' = [units EXCEPT ![u] = [@ EXCEPT !.pc = "stream"]]
    /\ UNCHANGED <<downloads, settings, download_handles, calls, nextId, hist, ctl,
                   store, boot, threads, mutex>>

\* The file after one more byte.  An append handle writes at the end of the
\* file; a created handle writes at its own position, the bytes it has
\* written so far.
WriteChunk(len, resume_from, downloaded) ==
    IF resume_from > 0 THEN len + 1
    ELSE IF len < downloaded + 1 THEN downloaded + 1 ELSE len

\* download_file: one chunk arrives and is written to the file.
UnitChunk(u) ==
    /\ u \in 1..Len(units) /\ units[u].pc = "stream"
    /\ units[u].remaining > 0
    /\ LET un == units[u] IN
       /\ file' = [file EXCEPT ![un.id] = WriteChunk(@, un.resume_from, un.downloaded)]
       /\ units' = [units EXCEPT ![u] =
              [@ EXCEPT !.pc = "sample", !.downloaded = @ + 1, !.remaining = @ - 1]]
    /\ UNCHANGED <<downloads, settings, download_handles, calls, nextId, hist, ctl,
                   store, boot, threads, mutex>>

\* download_file: the stream yields an error before its end.
UnitStreamError(u, duration) ==
    /\ u \in 1..Len(units) /\ units[u].pc = "stream"
    /\ units[u].remaining > 0
    /\ FailAttempt(u, "neterr", duration)
    /\ UNCHANGED <<settings, download_handles, calls, file, nextId, ctl, store, boot, threads, mutex>>

\* download_file: the progress sample after a chunk, taken when more than
\* 100 ms have passed since the last one.  With overflow checks on (a debug
\* build) total_size - downloaded panics where a release build wraps.
UnitSample(u, elapsed, speed, overflow_checks) ==
    /\ u \in 1..Len(units) /\ units[u].pc = "sample"
    /\ speed \in {0, 1}
    /\ LET un == units[u]
           id == un.id
       IN IF ~elapsed
          THEN /\ units' = [units EXCEPT ![u] = [@ EXCEPT !.pc = "stream"]]
               /\ UNCHANGED downloads
          ELSE IF speed > 0 /\ un.downloaded > un.total_size /\ overflow_checks
          THEN /\ units' = [units EXCEPT ![u] = Stopped(@, "panicked")]
               /\ UNCHANGED downloads
          ELSE /\ units' = [units EXCEPT ![u] = [@ EXCEPT !.pc = "stream"]]
               /\ downloads' =
                      IF HasTask(id)
                      THEN SetTask(id, [Task(id) EXCEPT
                               !.downloaded_size = un.downloaded,
                               !.progress = Progress(un.downloaded, un.total_size),
                               !.speed = speed,
                               !.time_remaining =
                                   TimeRemaining(un.downloaded, un.total_size, speed)])
                      ELSE downloads
    /\ UNCHANGED <<settings, download_handles, calls, file, nextId, hist, ctl, store, boot, threads, mutex>>

\* download_file: the stream is exhausted; mark the task Verifying.
UnitStreamEnd(u) ==
    /\ u \in 1..Len(units) /\ units[u].pc = "stream"
    /\ units[u].remaining = 0
    /\ LET id == units[u].id IN
       /\ downloads' = IF HasTask(id)
                       THEN SetTask(id, [Task(id) EXCEPT !.status = "Verifying"])
                       ELSE downloads
       /\ hist' = IF HasTask(id) THEN RecTask(id, <<"Verifying">>) ELSE hist
    /\ units' = [units EXCEPT ![u] = [@ EXCEPT !.pc = "verify"]]
    /\ UNCHANGED <<settings, download_handles, calls, file, nextId, ctl, store, boot, threads, mutex>>

\* download_file: the length check.
SizeMismatch(total, len) == total > 0 /\ len # total

\* download_file: compare the file's length with total_size; complete the
\* task and save, or fail the attempt with a size mismatch.
UnitVerify(u, duration) ==
    /\ u \in 1..Len(units) /\ units[u].pc = "verify"
    /\ LET un == units[u]
           id == un.id
       IN IF SizeMismatch(un.total_size, file[id])
          THEN FailAttempt(u, "mismatch", duration)
          ELSE /\ downloads' = IF HasTask(id)
                               THEN SetTask(id, CompletedTask(Task(id), un.total_size))
                               ELSE downloads
               /\ units' = [units EXCEPT ![u] = [@ EXCEPT !.pc = "exit"]]
               /\ hist' = IF HasTask(id) THEN RecTask(id, <<"Completed">>) ELSE hist
    /\ store' = IF SizeMismatch(units[u].total_size, file[units[u].id])
                THEN store ELSE SaveState(downloads', settings)
    /\ UNCHANGED <<settings, download_handles, calls, file, nextId, ctl, boot, threads, mutex>>

\* start_download_task: the backoff sleep ends.
UnitSleepDone(u) ==
    /\ u \in 1..Len(units) /\ units[u].pc = "sleep"
    /\ units' = [units EXCEPT ![u] = [@ EXCEPT !.pc = "loop"]]
    /\ UNCHANGED <<downloads, settings, download_handles, calls, file, nextId, hist, ctl,
                   store, boot, threads, mutex>>

\* start_download_task: after the loop, remove the map's entry for the id
\* (whichever unit's handle it holds) and save.
UnitExit(u) ==
    /\ u \in 1..Len(units) /\ units[u].pc = "exit"
    /\ download_handles' = [download_handles EXCEPT ![units[u].id] = NoUnit]
    /\ units' = [units EXCEPT ![u] = Stopped(@, "done")]
    /\ UNCHANGED <<downloads, settings, calls, file, nextId, hist, ctl, boot, threads, mutex>>
    /\ store' = SaveState(downloads', settings')

\* One step of unit u, the environment's part of it (the server's answer, the
\* time an attempt took) drawn from the given sets.
Unit(u, errs, durs, lens) ==
    \/ UnitInit(u)
    \/ \E oc \in BOOLEAN : UnitLoop(u, oc)
    \/ \E err \in errs, d \in durs : UnitRequestError(u, err, d)
    \/ \E status \in {200, 206}, hasLen \in lens : UnitRespond(u, status, hasLen)
    \/ UnitOpen(u)
    \/ UnitChunk(u)
    \/ \E d \in durs : UnitStreamError(u, d)
    \/ \E elapsed \in BOOLEAN, speed \in {0, 1}, oc \in BOOLEAN : UnitSample(u, elapsed, speed, oc)
    \/ UnitStreamEnd(u)
    \/ \E d \in durs : UnitVerify(u, d)
    \/ UnitSleepDone(u)
    \/ UnitExit(u)

\* The first add_download of a run.
FirstAdd(total) ==
    /\ nextId = 1
    /\ AddDownload(total)

\* Every interleaving of the commands on a task with its units, against a
\* server that fails with HTTP 500 or a transport error and announces the
\* length of what it sends.
Next ==
    \/ \E total \in {0, Size} : FirstAdd(total)
    \/ \E id \in TaskIds : ResumeDownload(id)
    \/ \E c \in calls : StartInsert(c)
    \/ \E id \in TaskIds : PauseDownload(id)
    \/ \E c \in calls : PauseMark(c)
    \/ \E id \in TaskIds : CancelDownload(id)
    \/ \E c \in calls : CancelRetain(c)
    \/ \E u \in 1..MaxUnits : Unit(u, {"e500"}, {MaxDuration}, {TRUE})

Spec == Init /\ [][Next]_vars

\* An undisturbed run: every settings value, one task added to an empty
\* registry and started once, no pause, cancel or settings change.
InitRun ==
    /\ downloads = <<>>
    /\ settings \in SettingsSpace
    /\ download_handles = [id \in TaskIds |-> NoUnit]
    /\ units = <<>>
    /\ calls = {}
    /\ file = [id \in TaskIds |-> 0]
    /\ nextId = 1
    /\ hist = [id \in TaskIds |-> <<>>]
    /\ ctl = [id \in TaskIds |-> "none"]
    /\ store = NoStore("absent")
    /\ boot = "running"
    /\ NoThreads

FirstStart(id) ==
    /\ HasTask(id) /\ ~Spawned(hist[id])
    /\ ResumeDownload(id)

NextRun ==
    \/ \E total \in {0, Size} : FirstAdd(total)
    \/ \E id \in TaskIds : FirstStart(id)
    \/ \E c \in calls : StartInsert(c)
    \/ \E u \in 1..MaxUnits : Unit(u, RequestErrors, Durations, BOOLEAN)

SpecRun == InitRun /\ [][NextRun]_vars

\* ---------------------------------------------------------------- startup
\* A task as an earlier run of the program can have left it in state.json:
\* any status (the process may have been killed while a unit was running),
\* one byte received, the counter fresh or at the end of its range
\* (every manual resume adds one to it).
LoadedTasks ==
    {[NewTask(1, Size) EXCEPT !.status = st, !.downloaded_size = n,
                              !.progress = Progress(n, Size), !.resume_attempts = a,
                              !.error_message = IF st = "Failed" THEN "error" ELSE "none"] :
        st \in {"Downloading", "Paused", "Failed"},
        n \in {1}, a \in {0, U8Max}}

Stores ==
    {NoStore(k) : k \in {"absent", "unreadable", "unparsable", "nodir"}}
        \cup {SaveState(ds, st) : ds \in {<<>>} \cup {<<t>> : t \in LoadedTasks},
                                  st \in {s \in UsualSettings : ~s.auto_start}}

\* main, the setup closure: resolve the path of state.json (an error is
\* returned), read it when it exists (an error is returned), parse it (an
\* error gives the default state), and manage the result.  An error returned
\* from setup ends the process.
Setup ==
    /\ boot = "setup"
    /\ IF store.kind \in {"nodir", "unreadable"}
       THEN /\ boot' = "failed"
            /\ UNCHANGED <<downloads, settings, nextId>>
       ELSE /\ boot' = "running"
            /\ downloads' = IF store.kind = "valid" THEN store.downloads ELSE <<>>
            /\ settings' = IF store.kind = "valid" THEN store.settings
                           ELSE DefaultSettings
            /\ nextId' = Len(downloads') + 1
    /\ UNCHANGED <<download_handles, units, calls, file, hist, ctl, store, threads, mutex>>

\* Before setup has run there is no managed state yet.
InitBoot ==
    /\ store \in Stores
    /\ boot = "setup"
    /\ downloads = <<>>
    /\ settings = DefaultSettings
    /\ download_handles = [id \in TaskIds |-> NoUnit]
    /\ units = <<>>
    /\ calls = {}
    /\ file = [id \in TaskIds |->
                  IF Len(store.downloads) > 0 THEN store.downloads[1].downloaded_size
                  ELSE 0]
    /\ nextId = 1
    /\ hist = [id \in TaskIds |-> <<>>]
    /\ ctl = [id \in TaskIds |-> "none"]
    /\ NoThreads

UpdateBeforeStart(s) ==
    /\ units = <<>>
    /\ UpdateSettings(s)

\* After startup: changes of the settings before anything is started, resume
\* and pause of the loaded task, and its units.
NextBoot ==
    \/ Setup
    \/ \E id \in TaskIds : ResumeDownload(id)
    \/ \E c \in calls : StartInsert(c)
    \/ \E id \in TaskIds : PauseDownload(id)
    \/ \E c \in calls : PauseMark(c)
    \/ \E s \in UsualSettings : UpdateBeforeStart(s)
    \/ \E u \in 1..MaxUnits : Unit(u, {"e500"}, {MaxDuration}, {TRUE})

SpecBoot == InitBoot /\ [][NextBoot]_vars

\* ------------------------------------------------------------ several tasks
\* Tasks added one after the other with auto_start on and a ceiling of one
\* concurrent download, and their units.
InitMany ==
    /\ Init
    /\ settings.auto_start

NextMany ==
    \/ AddDownload(Size)
    \/ \E c \in calls : StartInsert(c)
    \/ \E u \in 1..MaxUnits : Unit(u, {"e500"}, {MaxDuration}, {TRUE})

SpecMany == InitMany /\ [][NextMany]_vars

\* ------------------------------------------------ the lock protocol: steps
Running(t) == threads[t].st = "run"
Instr(t) == Program(threads[t].op)[threads[t].pc]
At(t, ops) == Running(t) /\ Instr(t).op \in ops
Holds(t) == mutex.persistent = t \/ mutex.download_handles = t

\* The thread at position pc; past its last instruction a command returns and
\* a unit is finished.
Moved(th, pc) ==
    IF pc <= Len(Program(th.op)) THEN [th EXCEPT !.pc = pc]
    ELSE IF th.op = "unit" THEN [th EXCEPT !.st = "done", !.pc = 0]
    ELSE Idle

Advance(t) == threads' = [threads EXCEPT ![t] = Moved(@, @.pc + 1)]

\* Threads take the lowest free slot.
FreeSlot(t) == threads[t].st = "idle" /\ \A v \in 1..(t - 1) : threads[v].st # "idle"

\* The frontend invokes a command.
Invoke(t, op) ==
    /\ FreeSlot(t)
    /\ op = "resume_download" => \E u \in Threads \ {t} : threads[u].st = "idle"
    /\ threads' = [threads EXCEPT ![t] = [Idle EXCEPT !.op = op, !.st = "run", !.pc = 1]]
    /\ UNCHANGED mutex
    /\ UNCHANGED progVars

\* Mutex::lock().await: granted only when nobody holds the lock (the holder
\* itself included: a tokio Mutex is not reentrant).
Lock(t) ==
    /\ \/ /\ At(t, {"lockP"}) /\ mutex.persistent = NoThread
          /\ mutex' = [mutex EXCEPT !.persistent = t]
       \/ /\ At(t, {"lockH"}) /\ mutex.download_handles = NoThread
          /\ mutex' = [mutex EXCEPT !.download_handles = t]
    /\ Advance(t)
    /\ UNCHANGED progVars

\* A guard goes out of scope or is dropped.
Unlock(t) ==
    /\ \/ /\ At(t, {"unlockP"})
          /\ mutex' = [mutex EXCEPT !.persistent = IF @ = t THEN NoThread ELSE @]
       \/ /\ At(t, {"unlockH"})
          /\ mutex' = [mutex EXCEPT !.download_handles = IF @ = t THEN NoThread ELSE @]
    /\ Advance(t)
    /\ UNCHANGED progVars

\* A read or an update of the registry, or fs::write of the document.
\* `partial` is set while a group of field updates is half applied.
Access(t) ==
    /\ At(t, {"read", "write", "w1", "w2", "set"})
    /\ mutex' = CASE Instr(t).op = "w1" -> [mutex EXCEPT !.partial = TRUE]
                  [] Instr(t).op = "w2" -> [mutex EXCEPT !.partial = FALSE]
                  [] OTHER -> mutex
    /\ Advance(t)
    /\ UNCHANGED progVars

\* tokio::spawn: the unit starts running at once.
SpawnUnit(t) ==
    /\ At(t, {"spawn"})
    /\ \E u \in Threads :
        /\ FreeSlot(u)
        /\ threads' = [threads EXCEPT
                ![t] = [Moved(@, @.pc + 1) EXCEPT !.child = u],
                ![u] = [Idle EXCEPT !.op = "unit", !.st = "run", !.pc = 1]]
    /\ UNCHANGED mutex
    /\ UNCHANGED progVars

\* download_handles.insert(id, handle)
InsertHandle(t) ==
    /\ At(t, {"insert"})
    /\ mutex' = [mutex EXCEPT !.entry = threads[t].child]
    /\ Advance(t)
    /\ UNCHANGED progVars

\* download_handles.remove(&id) at the unit's exit.
RemoveHandle(t) ==
    /\ At(t, {"remove"})
    /\ mutex' = [mutex EXCEPT !.entry = NoThread]
    /\ Advance(t)
    /\ UNCHANGED progVars

\* remove(&id) and handle.abort(): the unit is marked, and stops later.
AbortHandle(t) ==
    /\ At(t, {"abort"})
    /\ mutex' = [mutex EXCEPT !.entry = NoThread]
    /\ threads' = [v \in Threads |->
            IF v = t THEN Moved(threads[t], threads[t].pc + 1)
            ELSE IF v = mutex.entry /\ threads[v].st = "run"
                 THEN [threads[v] EXCEPT !.cancelled = TRUE]
            ELSE threads[v]]
    /\ UNCHANGED progVars

\* An .await on the network, the file system or the timer completes.
Await(t) ==
    /\ At(t, {"io", "sleep"})
    /\ \/ Advance(t)
       \/ /\ Instr(t).op = "io"
          /\ threads' = [threads EXCEPT ![t] = Moved(@, Instr(t).to)]
    /\ UNCHANGED mutex
    /\ UNCHANGED progVars

Branch(t) ==
    /\ At(t, {"either", "jump"})
    /\ \/ Instr(t).op = "either" /\ Advance(t)
       \/ threads' = [threads EXCEPT ![t] = Moved(@, Instr(t).to)]
    /\ UNCHANGED mutex
    /\ UNCHANGED progVars

\* Where a future can be suspended: every .await, a lock request included.
SuspensionPoints == {"io", "sleep", "lockP", "lockH"}

\* An aborted unit stops at a suspension point: its future is dropped, and
\* with it every guard the future holds.
Stop(t) ==
    /\ At(t, SuspensionPoints)
    /\ threads[t].cancelled
    /\ threads' = [threads EXCEPT ![t] = [@ EXCEPT !.st = "aborted"]]
    /\ mutex' = [mutex EXCEPT
            !.persistent = IF @ = t THEN NoThread ELSE @,
            !.download_handles = IF @ = t THEN NoThread ELSE @]
    /\ UNCHANGED progVars

InitLocks ==
    /\ InitBoot
    /\ store = NoStore("absent")

NextLocks ==
    \/ Setup
    \/ /\ boot = "running"
       /\ \E t \in Threads :
            \/ \E op \in Commands : Invoke(t, op)
            \/ Lock(t)
            \/ Unlock(t)
            \/ Access(t)
            \/ SpawnUnit(t)
            \/ InsertHandle(t)
            \/ RemoveHandle(t)
            \/ AbortHandle(t)
            \/ Await(t)
            \/ Branch(t)
            \/ Stop(t)

SpecLocks == InitLocks /\ [][NextLocks]_vars

\* ------------------------------------------------------ reading the record
Clean(h) == h # Dirty /\ Spawned(h)
Count(h, e) == Cardinality({i \in 1..Len(h) : h[i] = e})
StatusSeq(h) == SelectSeq(h, LAMBDA e : e \in Statuses)
Outcomes(h) == SelectSeq(h, LAMBDA e : e \in Errors \cup {"ok"})
Transient == {"e500", "neterr"}
AllTransient(h) == \A i \in 1..Len(h) : h[i] \in Errors \cup {"ok"} => h[i] \in Transient
\* some attempt after the first was shorter than min_fail_duration_seconds
FastRetry(h) == \E i \in 1..Len(h) : h[i] = "fast"
\* the last status recorded before position i
StatusBefore(h, i) ==
    LET js == {j \in 1..(i - 1) : h[j] \in Statuses}
    IN h[CHOOSE j \in js : \A k \in js : k <= j]

\* ================================================================ claims

\* C1: at most one live execution unit exists for any task id, in every
\* reachable state.
C1_AtMostOneLiveUnit ==
    \A id \in TaskIds : Cardinality(LiveUnits(id)) <= 1

\* C2: a start/resume on a task id that already has a live execution unit is
\* a no-op: it spawns no unit and leaves the task record unchanged.
C2_StartWhileRunningIsNoOp ==
    [][\A id \in TaskIds :
          (LiveUnits(id) # {} /\ ResumeDownload(id))
              => (units' = units /\ downloads' = downloads)]_vars

\* C3: once cancel(id) has completed, the task stays absent from the registry
\* and no unit writes to its destination file any more.
C3_CancelStopsWrites ==
    [][\A id \in TaskIds :
          ctl[id] = "cancelled" => (~HasTask(id)' /\ file'[id] = file[id])]_vars

\* C4: a pause sets the task Paused with speed 0, leaves downloaded_size,
\* total_size and resume_attempts alone and leaves no unit of the task live;
\* after the pause has returned, the task record does not change until the
\* next explicit resume.
C4_PauseFreezesTask ==
    [][/\ \A c \in calls :
            (PauseMark(c) /\ HasTask(c.id)) =>
                /\ Task(c.id)' = [Task(c.id) EXCEPT !.status = "Paused", !.speed = 0]
                /\ LiveUnits(c.id)' = {}
       /\ \A id \in TaskIds :
            (ctl[id] = "paused" /\ ctl'[id] = "paused" /\ HasTask(id))
                => (HasTask(id)' /\ Task(id)' = Task(id))]_vars

C6_NotFoundFails ==
    \A id \in TaskIds : \A i \in 1..Len(hist[id]) :
        hist[id][i] = "e404"
        => /\ i < Len(hist[id]) /\ hist[id][i + 1] = "Failed"
           /\ StatusBefore(hist[id], i) = "Downloading"

\* a 404 on an attempt that had retry budget left and was not short
C6_Witness ==
    \E id \in TaskIds :
        /\ HasTask(id) /\ Task(id).status = "Failed"
        /\ Count(hist[id], "e404") = 1 /\ Count(hist[id], "fast") = 0
        /\ settings.auto_resume_downloads
        /\ Count(hist[id], "Retrying") = 1
        /\ settings.max_resume_attempts >= 2

\* C7: an attempt answered with HTTP 401 or 403 is never retried: the task
\* goes to Failed, never to Retrying.
C7_AuthNeverRetried ==
    \A id \in TaskIds : \A i \in 1..Len(hist[id]) :
        hist[id][i] \in {"e401", "e403"}
        => (i < Len(hist[id]) /\ hist[id][i + 1] = "Failed")

\* C8: an undisturbed task whose first attempt fails with HTTP 500 and whose
\* second attempt succeeds goes Queued, Downloading, Retrying, Downloading,
\* Verifying, Completed and ends with resume_attempts = 1.
C8_RetryThenComplete ==
    \A id \in TaskIds :
        (HasTask(id) /\ Clean(hist[id]) /\ Outcomes(hist[id]) = <<"e500", "ok">>
            /\ Task(id).status = "Completed")
        => /\ StatusSeq(hist[id]) = <<"Queued", "Downloading", "Retrying",
                                      "Downloading", "Verifying", "Completed">>
           /\ Task(id).resume_attempts = 1

C8_Witness ==
    \E id \in TaskIds :
        /\ HasTask(id) /\ Clean(hist[id]) /\ Outcomes(hist[id]) = <<"e500", "ok">>
        /\ Task(id).status = "Completed"

\* C9: an undisturbed task whose single attempt succeeds with a known total
\* size goes Queued, Downloading, Verifying, Completed and is then at
\* progress 100 with downloaded_size = total_size, speed 0 and completed_at set.
C9_SingleAttemptCompletes ==
    \A id \in TaskIds :
        (HasTask(id) /\ Clean(hist[id]) /\ Outcomes(hist[id]) = <<"ok">>
            /\ Task(id).total_size > 0 /\ Task(id).status = "Completed")
        => /\ StatusSeq(hist[id]) = <<"Queued", "Downloading", "Verifying", "Completed">>
           /\ Task(id).progress = 100
           /\ Task(id).downloaded_size = Task(id).total_size
           /\ Task(id).total_size = Size
           /\ file[id] = Size
           /\ Task(id).speed = 0
           /\ Task(id).completed_at

C9_Witness ==
    \E id \in TaskIds :
        /\ HasTask(id) /\ Clean(hist[id]) /\ Outcomes(hist[id]) = <<"ok">>
        /\ Task(id).total_size > 0 /\ Task(id).status = "Completed"

\* C10: downloaded_size <= total_size whenever total_size > 0, in every
\* reachable registry state.
C10_DownloadedWithinTotal ==
    \A i \in 1..Len(downloads) :
        downloads[i].total_size > 0
            => downloads[i].downloaded_size <= downloads[i].total_size

\* C11: in every reachable registry state progress is
\* downloaded_size / total_size * 100 when total_size > 0 and 0 when
\* total_size = 0, also right after an attempt has recorded a new total_size
\* and at completion.
C11_ProgressMatches ==
    \A i \in 1..Len(downloads) :
        downloads[i].progress
            = Progress(downloads[i].downloaded_size, downloads[i].total_size)

\* C12: in every reachable registry state a task has an error message if and
\* only if its status is Failed or Retrying.
C12_ErrorIffFailedOrRetrying ==
    \A i \in 1..Len(downloads) :
        (downloads[i].error_message # "none")
            <=> (downloads[i].status \in {"Failed", "Retrying"})

\* The unit u is the one started by the resume of a paused task, and no other
\* unit of the task is live.
ResumedUnit(u) ==
    /\ u \in 1..Len(units)
    /\ ctl[units[u].id] = "resumed"
    /\ LiveUnits(units[u].id) = {u}
    /\ HasTask(units[u].id)

\* C13: the attempt started by resuming a paused task requests the bytes from
\* the registry's downloaded_size on, and when it has read to the end of the
\* stream of a server that honoured the range (the bytes from the offset up to
\* the resource's Size, with their length announced) the destination file is
\* as long as total_size, and the verification completes the task.
C13_ResumeCompletesFile ==
    \A u \in 1..Len(units) :
        ResumedUnit(u) =>
            /\ units[u].pc = "request"
                => units[u].resume_from = Task(units[u].id).downloaded_size
            /\ (units[u].pc = "verify" /\ units[u].total_size = Size
                    /\ units[u].downloaded = Size)
                => file[units[u].id] = units[u].total_size

\* C14: a Completed task's status never changes again, and a Failed task's
\* status changes only to Downloading (by the unit a manual resume started).
C14_CompletedAndFailedTerminal ==
    [][\A id \in TaskIds :
          (HasTask(id) /\ HasTask(id)') =>
              /\ Task(id).status = "Completed" => Task(id)'.status = "Completed"
              /\ Task(id).status = "Failed"
                    => Task(id)'.status \in {"Failed", "Downloading"}]_vars

\* C15: resume_attempts is 0 in a task just added; a step that takes the
\* status from Queued to Downloading leaves it alone, a step that takes the
\* status from anything else to Downloading adds exactly 1 to it, and it
\* changes in no step that does not set the status Downloading.
C15_AttemptsCountStarts ==
    [][\A id \in TaskIds :
          /\ (boot = "running" /\ ~HasTask(id) /\ HasTask(id)')
                => Task(id)'.resume_attempts = 0
          /\ (HasTask(id) /\ HasTask(id)') =>
                LET t == Task(id)
                    n == Task(id)'
                IN /\ (t.status = "Queued" /\ n.status = "Downloading")
                        => n.resume_attempts = t.resume_attempts
                   /\ (t.status \notin {"Queued", "Downloading"}
                            /\ n.status = "Downloading")
                        => n.resume_attempts = t.resume_attempts + 1
                   /\ n.resume_attempts # t.resume_attempts
                        => n.status = "Downloading"]_vars

\* C16: the step that takes a task from Paused to Downloading leaves
\* resume_attempts unchanged.
C16_ResumeOfPausedKeepsAttempts ==
    [][\A id \in TaskIds :
          (HasTask(id) /\ HasTask(id)' /\ Task(id).status = "Paused"
              /\ Task(id)'.status = "Downloading")
          => Task(id)'.resume_attempts = Task(id).resume_attempts]_vars

\* C17: with no user operation after the start, a unit that has stopped has
\* left its task Completed or Failed.
C17_StoppedUnitSettled ==
    \A u \in 1..Len(units) :
        (units[u].pc \in DeadPcs /\ HasTask(units[u].id))
            => Task(units[u].id).status \in {"Completed", "Failed"}

\* The document in state.json holds the task exactly as the registry does.
Flushed(id) ==
    /\ store.kind = "valid"
    /\ \E i \in 1..Len(store.downloads) : store.downloads[i] = Task(id)

\* C18: when a step changes a task's record, the record as it was before the
\* step has been written to the persisted document: the document never lags
\* the registry by more than one mutation.
C18_FlushedBeforeNextMutation ==
    [][\A id \in TaskIds :
          (HasTask(id) /\ HasTask(id)' /\ Task(id)' # Task(id)) => Flushed(id)]_vars

\* C19: a pause or cancel issued while the task is Retrying aborts the pending
\* retry: once its abort has been done, no live unit of the task is left
\* waiting in the backoff sleep, so nothing makes the task Downloading again
\* before an explicit resume.
C19_PauseAbortsPendingRetry ==
    [][\A id \in TaskIds :
          (HasTask(id) /\ Task(id).status = "Retrying"
              /\ (PauseDownload(id) \/ CancelDownload(id)))
          => \A u \in LiveUnits(id)' : units'[u].pc # "sleep"]_vars

\* C20: a store that is absent, unreadable or unparsable does not make startup
\* fail: setup ends with the program running on an empty registry and the
\* default settings.
C20_StartupNeverFails ==
    [][(Setup /\ store.kind \in {"absent", "unreadable", "unparsable"})
          => (boot' = "running" /\ downloads' = <<>>
                 /\ settings' = DefaultSettings)]_vars

\* C21: the number of live units never exceeds
\* settings.max_concurrent_downloads (a task started at the ceiling would stay
\* Queued, without a unit, until a slot is free).
C21_CeilingEnforced ==
    Cardinality({u \in 1..Len(units) : Live(u)}) <= settings.max_concurrent_downloads

\* C22: a start for an id that is not in the registry spawns no unit and
\* leaves the registry and the handle map as they are (it only returns the
\* error TaskNotFound).
C22_StartOfAbsentTaskFails ==
    [][\A id \in TaskIds :
          (~HasTask(id) /\ ResumeDownload(id))
              => (units' = units /\ calls' = calls /\ downloads' = downloads
                     /\ download_handles' = download_handles)]_vars

\* C23: a Failed task has an error message and speed 0, in every reachable
\* state.
C23_FailedHasErrorAndNoSpeed ==
    \A i \in 1..Len(downloads) :
        downloads[i].status = "Failed"
            => (downloads[i].error_message # "none" /\ downloads[i].speed = 0)

\* The policy table of the retry decision, for an error that is not final by
\* its kind: fail permanently when auto-resume is off, when the attempts made
\* so far have reached the ceiling, or when an attempt after the first was
\* shorter than min_fail_duration_seconds.
PolicyFails(st, attemptsSoFar, duration) ==
    \/ ~st.auto_resume_downloads
    \/ attemptsSoFar >= st.max_resume_attempts
    \/ (attemptsSoFar > 0 /\ duration < st.min_fail_duration_seconds)

C25_ResumeOffsetIsFileLength ==
    \A u \in 1..Len(units) :
        (units[u].pc = "request" /\ LiveUnits(units[u].id) = {u})
            => units[u].resume_from = file[units[u].id]

\* C26: a task becomes Completed only from Verifying, and only with a total
\* size that is unknown (0) or equal to the length of the destination file;
\* a verification that finds a known total size different from the file's
\* length moves the task to Failed, not to Retrying.
C26_CompletedOnlyVerified ==
    [][/\ \A id \in TaskIds :
            (HasTask(id) /\ HasTask(id)' /\ Task(id).status # "Completed"
                /\ Task(id)'.status = "Completed")
            => /\ Task(id).status = "Verifying"
               /\ Task(id)'.total_size \in {0, file'[id]}
       /\ \A u \in 1..MaxUnits : \A d \in Durations :
            (/\ u \in 1..Len(units) /\ HasTask(units[u].id)
             /\ UnitVerify(u, d)
             /\ SizeMismatch(units[u].total_size, file[units[u].id]))
            => Task(units[u].id)'.status = "Failed"]_vars

\* C29: whenever no start call is between its spawn and its insert, the handle
\* map has an entry for a task id exactly when a unit for that id is live, and
\* the entry is that unit: no finished unit leaves an entry, and every live
\* unit is the one the map names.
C29_HandleMapMatchesLiveUnits ==
    (\A c \in calls : c.op # "insert") =>
        \A id \in TaskIds :
            /\ download_handles[id] # NoUnit => Live(download_handles[id])
            /\ \A u \in LiveUnits(id) : download_handles[id] = u

\* C30: once the registry is loaded, a task whose status is Downloading,
\* Verifying or Retrying has a live unit.
C30_ActiveStatusHasLiveUnit ==
    boot = "running" =>
        \A i \in 1..Len(downloads) :
            downloads[i].status \in {"Downloading", "Verifying", "Retrying"}
                => LiveUnits(downloads[i].id) # {}

Waiting(t) ==
    \/ At(t, {"lockP"}) /\ mutex.persistent # NoThread
    \/ At(t, {"lockH"}) /\ mutex.download_handles # NoThread

\* C27: a unit is never stopped while it holds a lock; whenever the registry
\* lock is free no group of field updates is half applied; and no stopped or
\* finished unit holds a lock.
C27_AbortOutsideCriticalSections ==
    [][/\ \A t \in Threads :
            (threads[t].st = "run" /\ threads'[t].st = "aborted") => ~Holds(t)
       /\ mutex'.persistent = NoThread => ~mutex'.partial
       /\ \A t \in Threads :
            threads'[t].st \in {"aborted", "done"}
                => mutex'.persistent # t /\ mutex'.download_handles # t]_vars

\* A unit stopped in the backoff sleep, right after the Retrying group.
C27_Witness ==
    \E t \in Threads : threads[t].st = "aborted" /\ threads[t].pc = 44

\* C28: a thread that requests a lock, or is suspended anywhere else, holds
\* no lock, so a holder can always run on to its release; and in no state do
\* all running threads wait for a lock.
C28_DeadlockFree ==
    /\ \A t \in Threads : At(t, SuspensionPoints) => ~Holds(t)
    /\ (\E t \in Threads : Waiting(t)) => \E t \in Threads : Running(t) /\ ~Waiting(t)

\* A thread waits for the registry lock held by a second thread while a
\* third holds the handle-map lock.
C28_Witness ==
    \E t, u, v \in Threads :
        /\ At(t, {"lockP"}) /\ mutex.persistent = u /\ u # t
        /\ mutex.download_handles = v /\ v \notin {t, u}

\* C31: resume_attempts stays within 0..255 and no step makes it smaller, and
\* the increment at the head of the loop never overflows: no unit panics on
\* it and the counter never wraps.
C31_AttemptsNeverOverflow ==
    [][/\ \A id \in TaskIds :
            (HasTask(id) /\ HasTask(id)') =>
                /\ Task(id)'.resume_attempts \in 0..U8Max
                /\ Task(id)'.resume_attempts >= Task(id).resume_attempts
       /\ \A u \in 1..Len(units) :
            units[u].pc = "loop" => units'[u].pc # "panicked"]_vars

TypeOK ==
    /\ \A i \in 1..Len(downloads) : downloads[i].status \in Statuses
    /\ settings \in SettingsSpace \cup {DefaultSettings}
    /\ Len(units) <= MaxUnits
    /\ boot \in {"setup", "running", "failed"}
    /\ store.kind \in {"absent", "unreadable", "unparsable", "nodir", "valid"}

====
